---- MODULE Spec2Model ----
(***************************************************************************)
(* Signal generation and risk assessment of the Pocket Option bot.         *)
(*                                                                         *)
(*   Spec     RiskManager (risk_management.py) with its daily statistics,  *)
(*            driven by callers of its public methods and by the /signal   *)
(*            handler of main.py.                                          *)
(*   AggSpec  the rule-by-rule signal aggregation of the CALL/PUT bots     *)
(*            and the hand-over of its result to the user.                 *)
(*   RiskSpec RiskManager called directly over many signals.               *)
(*   BothSpec RiskManager next to the aggregation.                         *)
(*   PortSpec PortfolioTracker (portfolio_tracker.py): trades added and    *)
(*            closed.                                                      *)
(*                                                                         *)
(* Prices are integers in units of 1/PriceScale, profit and loss in units  *)
(* of 1/1000, dates are day numbers.                                       *)
(***************************************************************************)
EXTENDS Integers, Sequences, FiniteSets, TLC

VARIABLES
    today,          \* datetime.now().date(), as a day number
    daily_stats,    \* RiskManager.daily_stats
    sent_today,     \* history: update_daily_stats(signal_sent=True) calls made on `today`
    pc,             \* position of each /signal request in signal_command
    op,             \* the operation that returned last
    ret,            \* what it returned (NoRet once the caller has taken it)
    a_pc,           \* position of the aggregation request
    a_variant,      \* which bot runs it
    a_handler,      \* which handler asked for the signal
    a_len,          \* number of bars the provider returned (-1: the fetch raised)
    indicators,     \* the indicator values the rules read
    action,         \* direction so far
    signal_strength,\* points so far
    reasoning,      \* reasons so far
    signal_data,    \* what the handler shows to the user
    trades,         \* PortfolioTracker.trades
    p_daily_stats   \* PortfolioTracker.daily_stats, today's entry

limVars == <<today, daily_stats, sent_today, pc, op, ret>>
aggVars == <<a_pc, a_variant, a_handler, a_len, indicators, action,
             signal_strength, reasoning, signal_data>>
portVars == <<trades, p_daily_stats>>
vars == <<today, daily_stats, sent_today, pc, op, ret, a_pc, a_variant, a_handler,
          a_len, indicators, action, signal_strength, reasoning, signal_data,
          trades, p_daily_stats>>

----------------------------------------------------------------------------
(* Bounds of the model *)

MaxDay == 1             \* days the clock can advance
Overshoot == 2          \* how far signals_sent is followed beyond the cap
MaxTrades == 2          \* trade results recorded per day
NumRequests == 2        \* concurrent /signal requests
MAX_DAILY_SIGNALS == 2  \* config['MAX_DAILY_SIGNALS'] of this run

(* Program constants *)

DEFAULT_MAX_POSITION_SIZE == 100
RISK_PERCENTAGE == 2
ACCOUNT_BALANCE == 1000
PriceScale == 100 * 100     \* price units per 1.0: a unit is 0.0001

(* A key absent from the dict (dict.get gives its default) and a value that
   is present but is not a number (None): arithmetic on it raises TypeError. *)
Missing == -900001
NoneVal == -900002

Get(v, default) == IF v = Missing THEN default ELSE v

Abs(x) == IF x < 0 THEN -x ELSE x

----------------------------------------------------------------------------
(* RiskManager: daily statistics *)

\* reset_daily_stats / __init__
ResetStats(now) ==
    [trades_taken |-> 0, signals_sent |-> 0, max_trades_reached |-> FALSE,
     win_rate |-> 0, profit_loss |-> 0, last_reset |-> now]

\* faulty variant: the statistics are reset on every access
MutRolledOver(stats, now) == ResetStats(now)

\* the day-rollover test at the head of check_daily_limits and update_daily_stats
RolledOver(stats, now) ==
    IF stats.last_reset # now THEN ResetStats(now) ELSE stats

\* faulty variant: the cap compared with > instead of >=
MutCheckDailyLimitsOn(stats, now) ==
    LET st == IF stats.last_reset # now THEN ResetStats(now) ELSE stats
    IN  [stats |-> st, reached |-> st.signals_sent > MAX_DAILY_SIGNALS]

\* check_daily_limits: the statistics afterwards and the return value
CheckDailyLimitsOn(stats, now) ==
    LET st == RolledOver(stats, now)
    IN  [stats |-> st, reached |-> st.signals_sent >= MAX_DAILY_SIGNALS]

\* Trade results a caller can pass: None, an empty dict, a dict without
\* 'profit_loss', a dict with it (units of 1/1000).
TradeResults ==
    {[kind |-> "None", profit_loss |-> 0], [kind |-> "empty", profit_loss |-> 0],
     [kind |-> "no_pl", profit_loss |-> 0]}
    \cup {[kind |-> "pl", profit_loss |-> p] : p \in {-125, 375}}

\* `if trade_result:` None and {} are falsy
Truthy(trade_result) == trade_result.kind \in {"no_pl", "pl"}

\* faulty variant: a recorded trade counts as a signal sent as well
MutUpdateDailyStatsOn(stats, now, signal_sent, trade_result) ==
    LET st == RolledOver(stats, now)
        s1 == IF signal_sent \/ Truthy(trade_result)
              THEN [st EXCEPT !.signals_sent = @ + 1] ELSE st
    IN  IF Truthy(trade_result)
        THEN [s1 EXCEPT !.trades_taken = @ + 1,
                        !.profit_loss = IF trade_result.kind = "pl"
                                        THEN @ + trade_result.profit_loss ELSE @]
        ELSE s1

\* update_daily_stats
UpdateDailyStatsOn(stats, now, signal_sent, trade_result) ==
    LET st == RolledOver(stats, now)
        s1 == IF signal_sent THEN [st EXCEPT !.signals_sent = @ + 1] ELSE st
        s2 == IF Truthy(trade_result)
              THEN [s1 EXCEPT !.trades_taken = @ + 1,
                              !.profit_loss = IF trade_result.kind = "pl"
                                              THEN @ + trade_result.profit_loss ELSE @]
              ELSE s1
    IN  s2

\* round(x, 2) on a value in units of 1/1000 (ties to even; the amounts used
\* are multiples of 1/8 and exact as floats)
Round2(x) ==
    LET q == x \div 10
        r == x % 10
    IN  IF r < 5 THEN 10 * q
        ELSE IF r > 5 THEN 10 * (q + 1)
        ELSE IF q % 2 = 0 THEN 10 * q ELSE 10 * (q + 1)

Max(a, b) == IF a >= b THEN a ELSE b

\* get_daily_summary
DailySummary(stats, now) ==
    [date |-> now,
     signals_sent |-> stats.signals_sent,
     trades_taken |-> stats.trades_taken,
     profit_loss |-> Round2(stats.profit_loss),
     remaining_signals |-> Max(0, MAX_DAILY_SIGNALS - stats.signals_sent),
     max_trades_reached |-> stats.signals_sent >= MAX_DAILY_SIGNALS]

----------------------------------------------------------------------------
(* RiskManager: position size and risk assessment *)

\* A rational as <<numerator, denominator>>, denominator > 0
Rat(n, d) == <<n, d>>
RatLt(x, n, d) == x[1] * d < n * x[2]      \* x < n/d, for d > 0

\* faulty variant: the maximum position size is not applied
MutCalculatePositionSize(account_balance, risk_percentage, stop_loss_distance) ==
    IF stop_loss_distance > 0
    THEN Rat(account_balance * risk_percentage * PriceScale, 100 * stop_loss_distance)
    ELSE Rat(0, 1)

\* calculate_position_size, stop_loss_distance in price units
CalculatePositionSize(account_balance, risk_percentage, stop_loss_distance) ==
    LET \* risk_amount / stop_loss_distance
        num == account_balance * risk_percentage * PriceScale
        den == 100 * stop_loss_distance
        max_position == DEFAULT_MAX_POSITION_SIZE
    IN  IF stop_loss_distance > 0
        THEN IF num < max_position * den THEN Rat(num, den) ELSE Rat(max_position, 1)
        ELSE IF 0 < max_position THEN Rat(0, 1) ELSE Rat(max_position, 1)

IsNum(v) == v # NoneVal

\* the dict assess_trade_risk starts from
NewAssessment ==
    [risk_level |-> "LOW", score |-> 0, max_loss |-> 0, risk_reward_ratio |-> Rat(0, 1),
     warnings |-> <<>>, recommendation |-> "APPROVED", position_size |-> Rat(0, 1)]

\* faulty variant: the except branch leaves the assessment as it was
MutErrorExit(ra) == ra

\* the except branch: what was written before the exception stays
ErrorExit(ra) ==
    [ra EXCEPT !.recommendation = "ERROR",
               !.warnings = Append(@, "Risk assessment error")]

\* 1. risk-reward ratio
RiskRewardPoints(ratio) ==
    IF RatLt(ratio, 1, 1) THEN 3 ELSE IF RatLt(ratio, 3, 2) THEN 1 ELSE -1

\* 2. stop distance as a percentage of the price:
\*    risk_percent = stop_distance / current_price * 100, current_price # 0
RiskPercentAbove(stop_distance, current_price, k) ==
    IF current_price > 0 THEN 100 * stop_distance > k * current_price
                         ELSE 100 * stop_distance < k * current_price
RiskPercentBelow(stop_distance, current_price, k) ==
    IF current_price > 0 THEN 100 * stop_distance < k * current_price
                         ELSE 100 * stop_distance > k * current_price
StopPoints(stop_distance, current_price) ==
    IF RiskPercentAbove(stop_distance, current_price, 5) THEN 2
    ELSE IF RiskPercentBelow(stop_distance, current_price, 1) THEN 1 ELSE 0

\* 3. confidence
ConfidencePoints(confidence) ==
    IF confidence < 30 THEN 2 ELSE IF confidence > 70 THEN -2 ELSE 0

\* faulty variant: a signal that is neither BUY nor SELL counts as neutral
MutAlignmentScore(direction, rsi, macd, macd_signal) ==
    IF direction \notin {"BUY", "SELL"} THEN 0
    ELSE (IF 30 < rsi /\ rsi < 70 THEN 1 ELSE -1)
         + (IF (direction = "BUY" /\ macd > macd_signal)
               \/ (direction = "SELL" /\ macd < macd_signal) THEN 1 ELSE -1)

\* 4. indicator alignment
AlignmentScore(direction, rsi, macd, macd_signal) ==
    (IF (direction = "BUY" /\ 30 < rsi /\ rsi < 70)
        \/ (direction = "SELL" /\ 30 < rsi /\ rsi < 70) THEN 1 ELSE -1)
    + (IF (direction = "BUY" /\ macd > macd_signal)
          \/ (direction = "SELL" /\ macd < macd_signal) THEN 1 ELSE -1)

\* 5. volatility
AdxPoints(adx) == IF adx > 30 THEN 1 ELSE 0

\* faulty variant: the thresholds compared with < instead of <=
MutRiskLevel(risk_score) ==
    IF risk_score < -2 THEN "VERY_LOW"
    ELSE IF risk_score < 0 THEN "LOW"
    ELSE IF risk_score < 2 THEN "MEDIUM"
    ELSE IF risk_score < 4 THEN "HIGH"
    ELSE "VERY_HIGH"

RiskLevel(risk_score) ==
    IF risk_score <= -2 THEN "VERY_LOW"
    ELSE IF risk_score <= 0 THEN "LOW"
    ELSE IF risk_score <= 2 THEN "MEDIUM"
    ELSE IF risk_score <= 4 THEN "HIGH"
    ELSE "VERY_HIGH"

\* faulty variant: CAUTION only above a score of 3
MutRecommendation(risk_score, confidence) ==
    IF risk_score > 4 \/ confidence < 20 THEN "REJECTED"
    ELSE IF risk_score > 3 THEN "CAUTION"
    ELSE "APPROVED"

\* the final recommendation before the daily-limit check
Recommendation(risk_score, confidence) ==
    IF risk_score > 4 \/ confidence < 20 THEN "REJECTED"
    ELSE IF risk_score > 2 THEN "CAUTION"
    ELSE "APPROVED"

\* faulty variant: the guard forgets the stop-loss
MutInvalidPriceData(current_price, stop_loss) == current_price = 0

\* Whether the zero-price / zero-stop guard returns early
InvalidPriceData(current_price, stop_loss) == current_price = 0 \/ stop_loss = 0

\* assess_trade_risk up to, not including, the daily-limit check.
\* exit: "invalid" (early return), "raised" (except branch), "scored".
RiskScoring(signal, account_balance) ==
    LET current_price == Get(signal.current_price, 0)
        stop_loss     == Get(signal.stop_loss, 0)
        take_profit   == Get(signal.take_profit, 0)
        confidence    == Get(signal.confidence, 0)
        ra0           == NewAssessment
    IN  IF InvalidPriceData(current_price, stop_loss)
        THEN [exit |-> "invalid",
              ra |-> [ra0 EXCEPT !.recommendation = "REJECTED",
                                 !.warnings = Append(@, "Invalid price data")]]
        ELSE IF ~IsNum(current_price) \/ ~IsNum(stop_loss) \/ ~IsNum(take_profit)
        THEN [exit |-> "raised", ra |-> ErrorExit(ra0)]
        ELSE
        LET stop_distance   == Abs(current_price - stop_loss)
            profit_distance == IF signal.signal = "BUY"
                               THEN take_profit - current_price
                               ELSE current_price - take_profit
            risk_reward_ratio == IF stop_distance > 0
                                 THEN Rat(profit_distance, stop_distance)
                                 ELSE Rat(0, 1)
            p1 == RiskRewardPoints(risk_reward_ratio)
            p2 == StopPoints(stop_distance, current_price)
            w1 == IF p1 = 3 THEN <<"Poor risk-reward ratio">> ELSE <<>>
            w2 == IF p2 = 2 THEN <<"High stop loss percentage">>
                  ELSE IF p2 = 1 THEN <<"Very tight stop loss">> ELSE <<>>
            ra2 == [ra0 EXCEPT !.risk_reward_ratio = risk_reward_ratio,
                               !.max_loss = stop_distance,
                               !.warnings = w1 \o w2]
        IN  IF ~IsNum(confidence)
            THEN [exit |-> "raised", ra |-> ErrorExit(ra2)]
            ELSE
            LET p3 == ConfidencePoints(confidence)
                w3 == IF p3 = 2 THEN <<"Low signal confidence">> ELSE <<>>
                ind == signal.technical_indicators
            IN  \* `30 < rsi` is evaluated only behind signal == 'BUY' / 'SELL'
                IF signal.signal \in {"BUY", "SELL"} /\ ~IsNum(Get(ind.RSI, 50))
                THEN [exit |-> "raised",
                      ra |-> ErrorExit([ra2 EXCEPT !.warnings = @ \o w3])]
                ELSE
            LET alignment_score == AlignmentScore(signal.signal, Get(ind.RSI, 50),
                                       Get(ind.MACD, 0), Get(ind.MACD_Signal, 0))
                p5 == AdxPoints(Get(ind.ADX, 0))
                w5 == IF p5 = 1 THEN <<"High market volatility">> ELSE <<>>
                risk_score == p1 + p2 + p3 + alignment_score + p5
            IN  [exit |-> "scored",
                 ra |-> [ra2 EXCEPT
                           !.warnings = @ \o w3 \o w5,
                           !.score = risk_score,
                           !.risk_level = RiskLevel(risk_score),
                           !.position_size = CalculatePositionSize(account_balance,
                                                 RISK_PERCENTAGE, stop_distance),
                           !.recommendation = Recommendation(risk_score, confidence)]]

\* faulty variant: at the limit the warning is added but the recommendation stays
MutApplyDailyLimit(ra, reached) ==
    IF reached
    THEN [ra EXCEPT !.warnings = Append(@, "Daily trading limit reached")]
    ELSE ra

\* the daily-limit check that ends assess_trade_risk
ApplyDailyLimit(ra, reached) ==
    IF reached
    THEN [ra EXCEPT !.recommendation = "REJECTED",
                    !.warnings = Append(@, "Daily trading limit reached")]
    ELSE ra

\* faulty variant: the assessment counts the signal as sent
MutAssessTradeRiskOn(signal, account_balance, stats, now) ==
    LET s == RiskScoring(signal, account_balance)
        c == CheckDailyLimitsOn(stats, now)
    IN  IF s.exit = "scored"
        THEN [ra |-> ApplyDailyLimit(s.ra, c.reached), exit |-> s.exit,
              stats |-> [c.stats EXCEPT !.signals_sent = @ + 1]]
        ELSE [ra |-> s.ra, exit |-> s.exit, stats |-> stats]

\* assess_trade_risk: the assessment returned and the statistics afterwards
AssessTradeRiskOn(signal, account_balance, stats, now) ==
    LET s == RiskScoring(signal, account_balance)
        c == CheckDailyLimitsOn(stats, now)
    IN  IF s.exit = "scored"
        THEN [ra |-> ApplyDailyLimit(s.ra, c.reached), exit |-> s.exit, stats |-> c.stats]
        ELSE [ra |-> s.ra, exit |-> s.exit, stats |-> stats]


----------------------------------------------------------------------------
(* The callers' inputs *)

Requests == 1..NumRequests

NoRet == [kind |-> "none"]

Signal(direction, confidence, current_price, stop_loss, take_profit, rsi, macd, adx) ==
    [signal |-> direction, confidence |-> confidence, current_price |-> current_price,
     stop_loss |-> stop_loss, take_profit |-> take_profit,
     technical_indicators |->
        [RSI |-> rsi, MACD |-> macd, MACD_Signal |-> 0, ADX |-> adx]]

\* Signals handed to assess_trade_risk directly. Around a price of 1.0000:
\* stops at 0.5 %, 2 % and 6 % below, at the price, and 2 % above; targets on
\* both sides giving risk-reward ratios below 1, between 1 and 1.5, and above.
\* "None": the dict has no 'signal' key and signal.get('signal') is None
Directions == {"BUY", "SELL", "HOLD", "None"}
Confidences == {NoneVal, 10, 25, 50, 80}
Prices == {Missing, 0, 10000}
StopLosses == {Missing, NoneVal, 0, 9400, 9800, 9950, 10000}
TakeProfits == {NoneVal, 9600, 9750, 10250, 10400}
RSIs == {NoneVal, 20, 50}
MACDs == {-1, 1}
ADXs == {20, 40}
Balances == {100, ACCOUNT_BALANCE}

----------------------------------------------------------------------------
(* Actions of the RiskManager *)

\* The wall clock passes midnight
Tick ==
    /\ ret = NoRet
    /\ today < MaxDay
    /\ today' = today + 1
    /\ sent_today' = 0
    /\ UNCHANGED <<daily_stats, pc, op, ret>>
    /\ UNCHANGED <<aggVars, portVars>>

\* The caller takes the returned value
TakeResult ==
    /\ ret # NoRet
    /\ ret' = NoRet
    /\ op' = "none"
    /\ UNCHANGED <<today, daily_stats, sent_today, pc>>
    /\ UNCHANGED <<aggVars, portVars>>

CheckDailyLimits ==
    /\ ret = NoRet
    /\ LET c == CheckDailyLimitsOn(daily_stats, today)
       IN  /\ daily_stats' = c.stats
           /\ ret' = [kind |-> "bool", value |-> c.reached]
    /\ op' = "check_daily_limits"
    /\ UNCHANGED <<today, sent_today, pc>>
    /\ UNCHANGED <<aggVars, portVars>>

UpdateDailyStats(signal_sent, trade_result) ==
    /\ ret = NoRet
    /\ signal_sent =>
          RolledOver(daily_stats, today).signals_sent < MAX_DAILY_SIGNALS + Overshoot
    /\ Truthy(trade_result) => RolledOver(daily_stats, today).trades_taken < MaxTrades
    /\ daily_stats' = UpdateDailyStatsOn(daily_stats, today, signal_sent, trade_result)
    /\ sent_today' = IF signal_sent THEN sent_today + 1 ELSE sent_today
    /\ op' = "update_daily_stats"
    /\ ret' = [kind |-> "None", signal_sent |-> signal_sent, trade_result |-> trade_result]
    /\ UNCHANGED <<today, pc>>
    /\ UNCHANGED <<aggVars, portVars>>

GetDailySummary ==
    /\ ret = NoRet
    /\ ret' = [kind |-> "summary", value |-> DailySummary(daily_stats, today)]
    /\ op' = "get_daily_summary"
    /\ UNCHANGED <<today, daily_stats, sent_today, pc>>
    /\ UNCHANGED <<aggVars, portVars>>

AssessTradeRisk(signal, account_balance) ==
    /\ ret = NoRet
    /\ LET a == AssessTradeRiskOn(signal, account_balance, daily_stats, today)
       IN  /\ daily_stats' = a.stats
           /\ ret' = [kind |-> "assessment", signal |-> signal,
                      account_balance |-> account_balance, exit |-> a.exit,
                      value |-> a.ra]
    /\ op' = "assess_trade_risk"
    /\ UNCHANGED <<today, sent_today, pc>>
    /\ UNCHANGED <<aggVars, portVars>>

----------------------------------------------------------------------------
(* Specifications *)

LimInit ==
    /\ today = 0
    /\ daily_stats = ResetStats(0)
    /\ sent_today = 0
    /\ pc = [r \in Requests |-> "idle"]
    /\ op = "none"
    /\ ret = NoRet

AggInit ==
    /\ a_pc = "idle"
    /\ a_variant = "none"
    /\ a_handler = "none"
    /\ a_len = 0
    /\ indicators = [kind |-> "none"]
    /\ action = "HOLD"
    /\ signal_strength = 0
    /\ reasoning = <<>>
    /\ signal_data = [kind |-> "none"]

\* PortfolioTracker.__init__ without a data file
PortInit ==
    /\ trades = <<>>
    /\ p_daily_stats = [kind |-> "none"]

Init == LimInit /\ AggInit /\ PortInit

\* RiskManager under direct calls with every signal of Signals
RiskNext ==
    \/ Tick
    \/ TakeResult
    \/ CheckDailyLimits
    \/ /\ RolledOver(daily_stats, today).signals_sent <= MAX_DAILY_SIGNALS
       /\ UpdateDailyStats(TRUE, [kind |-> "None", profit_loss |-> 0])
    \/ GetDailySummary
    \/ /\ ret = NoRet
       /\ \E d \in Directions, c \in Confidences, p \in Prices, sl \in StopLosses,
             tp \in TakeProfits, rsi \in RSIs, macd \in MACDs, adx \in ADXs,
             b \in Balances :
               AssessTradeRisk(Signal(d, c, p, sl, tp, rsi, macd, adx), b)

RiskSpec == Init /\ [][RiskNext]_vars

----------------------------------------------------------------------------
(* TechnicalAnalyzer.generate_signal (technical_analysis.py) *)

\* faulty variant: no ceiling
MutMin(a, b) == a

Min(a, b) == IF a <= b THEN a ELSE b

\* The last row of the indicator frame, as generate_signal reads it
Row(close, rsi, macd, ma20, ma50, bb_lower, bb_upper, stoch, atr, adx) ==
    [Close |-> close, RSI |-> rsi, MACD |-> macd, MACD_Signal |-> 0,
     MA20 |-> ma20, MA50 |-> ma50, BB_Lower |-> bb_lower, BB_Upper |-> bb_upper,
     Stoch_K |-> stoch, Stoch_D |-> stoch, ATR |-> atr, ADX |-> adx]

\* The rules in the order of the source: <<signal_score, confidence, reasons>>
\* contributed by each
RsiRule(latest) ==
    IF latest.RSI < 30 THEN <<1, 10, <<"RSI Oversold">> >>
    ELSE IF latest.RSI > 70 THEN <<-1, 10, <<"RSI Overbought">> >>
    ELSE <<0, 0, <<>> >>

MacdRule(latest) ==
    IF latest.MACD > latest.MACD_Signal THEN <<1, 15, <<"MACD Bullish Crossover">> >>
    ELSE <<-1, 15, <<"MACD Bearish">> >>

MaRule(latest) ==
    IF latest.Close > latest.MA20 /\ latest.MA20 > latest.MA50
    THEN <<2, 20, <<"Price above MA20 > MA50">> >>
    ELSE IF latest.Close < latest.MA20 /\ latest.MA20 < latest.MA50
    THEN <<-2, 20, <<"Price below MA20 < MA50">> >>
    ELSE <<0, 0, <<>> >>

BbRule(latest) ==
    IF latest.Close < latest.BB_Lower THEN <<1, 15, <<"Price below BB Lower">> >>
    ELSE IF latest.Close > latest.BB_Upper THEN <<-1, 15, <<"Price above BB Upper">> >>
    ELSE <<0, 0, <<>> >>

StochRule(latest) ==
    IF latest.Stoch_K < 20 /\ latest.Stoch_D < 20
    THEN <<1, 10, <<"Stochastic Oversold">> >>
    ELSE IF latest.Stoch_K > 80 /\ latest.Stoch_D > 80
    THEN <<-1, 10, <<"Stochastic Overbought">> >>
    ELSE <<0, 0, <<>> >>

PatternRules(patterns) ==
    LET e == IF patterns.bullish_engulfing
             THEN <<2, 25, <<"Bullish Engulfing Pattern">> >> ELSE <<0, 0, <<>> >>
        h == IF patterns.hammer
             THEN <<1, 20, <<"Hammer Pattern">> >> ELSE <<0, 0, <<>> >>
    IN  <<e[1] + h[1], e[2] + h[2], e[3] \o h[3]>>

\* faulty variant: BUY and SELL need a score beyond 3
MutSignalType(signal_score) ==
    IF signal_score > 3 THEN "BUY" ELSE IF signal_score < -3 THEN "SELL" ELSE "HOLD"

SignalType(signal_score) ==
    IF signal_score >= 3 THEN "BUY" ELSE IF signal_score <= -3 THEN "SELL" ELSE "HOLD"

\* Floats: the sum of a price and a much smaller multiple of the ATR is
\* rounded to the nearest float at the magnitude of the price (ties to even).
\* The price unit stands for the spacing of the floats at the price; the ATR,
\* smaller in magnitude, resolves AtrScale steps per price unit.
AtrScale == 2 * 2

\* n / d rounded to the nearest whole number, ties to even (n >= 0, d > 0)
RoundHalfEven(n, d) ==
    LET q == n \div d
        r == n % d
    IN  IF 2 * r < d THEN q
        ELSE IF 2 * r > d THEN q + 1
        ELSE IF q % 2 = 0 THEN q ELSE q + 1

\* stop_loss and take_profit around the close: 1.5 and 2 times the ATR
\* (current_price is an even number of units)
StopLoss(signal_type, current_price, atr) ==
    IF signal_type = "BUY" THEN current_price - RoundHalfEven(3 * atr, 2 * AtrScale)
                           ELSE current_price + RoundHalfEven(3 * atr, 2 * AtrScale)
TakeProfit(signal_type, current_price, atr) ==
    IF signal_type = "BUY" THEN current_price + RoundHalfEven(atr * 2, AtrScale)
                           ELSE current_price - RoundHalfEven(atr * 2, AtrScale)

\* generate_signal. fetch: "empty" (get_historical_data caught a provider error
\* or got no rows and returned an empty frame), "raise" (a step inside the try
\* raised), "ok".
GenerateSignal(fetch, latest, patterns) ==
    IF fetch = "empty" THEN [error |-> TRUE, kind |-> "No data available"]
    ELSE IF fetch = "raise" THEN [error |-> TRUE, kind |-> "exception"]
    ELSE
    LET r1 == RsiRule(latest)
        r2 == MacdRule(latest)
        r3 == MaRule(latest)
        r4 == BbRule(latest)
        r5 == StochRule(latest)
        r6 == PatternRules(patterns)
        signal_score == r1[1] + r2[1] + r3[1] + r4[1] + r5[1] + r6[1]
        confidence == Min(r1[2] + r2[2] + r3[2] + r4[2] + r5[2] + r6[2], 95)
        signal_type == SignalType(signal_score)
        current_price == latest.Close
    IN  [error |-> FALSE,
         signal |-> signal_type,
         confidence |-> confidence,
         current_price |-> current_price,
         entry_price |-> current_price,
         stop_loss |-> StopLoss(signal_type, current_price, latest.ATR),
         take_profit |-> TakeProfit(signal_type, current_price, latest.ATR),
         reasons |-> r1[3] \o r2[3] \o r3[3] \o r4[3] \o r5[3] \o r6[3],
         patterns |-> patterns,
         technical_indicators |->
            [RSI |-> latest.RSI, MACD |-> latest.MACD,
             MACD_Signal |-> latest.MACD_Signal, ADX |-> latest.ADX]]

----------------------------------------------------------------------------
(* PocketOptionBot.signal_command (main.py) *)

\* up to the first await: the authorization check and the "please wait" reply
SignalStart(r, authorized) ==
    /\ ret = NoRet
    /\ pc[r] = "idle"
    /\ IF authorized
       THEN /\ pc' = [pc EXCEPT ![r] = "generating"]
            /\ UNCHANGED <<op, ret>>
       ELSE /\ op' = "signal_command"
            /\ ret' = [kind |-> "reply", text |-> "Unauthorized", request |-> r]
            /\ UNCHANGED pc
    /\ UNCHANGED <<today, daily_stats, sent_today>>
    /\ UNCHANGED <<aggVars, portVars>>

\* from generate_signal to the reply that ends the handler
SignalRun(r, fetch, latest, patterns) ==
    /\ ret = NoRet
    /\ pc[r] = "generating"
    /\ LET signal == GenerateSignal(fetch, latest, patterns)
       IN  IF signal.error
           THEN /\ ret' = [kind |-> "reply", text |-> "Error", request |-> r]
                /\ UNCHANGED daily_stats
           ELSE LET a == AssessTradeRiskOn(signal, ACCOUNT_BALANCE, daily_stats, today)
                IN  /\ daily_stats' = a.stats
                    \* latest: the row the signal was made from (not in the reply)
                    /\ ret' = [kind |-> "reply", text |-> "Signal", request |-> r,
                               signal |-> signal, risk_assessment |-> a.ra,
                               latest |-> latest]
    /\ op' = "signal_command"
    /\ pc' = [pc EXCEPT ![r] = "idle"]
    /\ UNCHANGED <<today, sent_today>>
    /\ UNCHANGED <<aggVars, portVars>>

\* ATR of the last row, in units of 1/AtrScale of a price unit: 0 (a frame
\* without any range), two values of the order of the float spacing at the
\* price (a long tail of bars without range, over which the smoothed ATR
\* decays), and 0.0040 and 0.04
AtrValues == {0, 1, 3, 40 * AtrScale, 400 * AtrScale}

\* Rows offered by the provider in this specification
Fetches == {"empty", "raise", "ok"}
Rows ==
    {Row(10000, rsi, macd, ma[1], ma[2], 9500, 10500, 50, atr, adx) :
        rsi \in {25, 50}, macd \in {-1, 1},
        ma \in {<<9900, 9800>>, <<10100, 10200>>}, atr \in AtrValues,
        adx \in {20, 40}}
PatternSets == {[bullish_engulfing |-> e, hammer |-> FALSE] : e \in BOOLEAN}

Next ==
    \/ Tick
    \/ TakeResult
    \/ CheckDailyLimits
    \/ /\ ret = NoRet
       /\ \E signal_sent \in BOOLEAN, trade_result \in TradeResults :
             UpdateDailyStats(signal_sent, trade_result)
    \/ GetDailySummary
    \/ /\ ret = NoRet
       /\ \E r \in Requests, authorized \in BOOLEAN : SignalStart(r, authorized)
    \/ /\ ret = NoRet
       /\ \E r \in Requests : 
             /\ pc[r] = "generating"
             /\ \E fetch \in Fetches, latest \in Rows, patterns \in PatternSets :
                   SignalRun(r, fetch, latest, patterns)

Spec == Init /\ [][Next]_vars

----------------------------------------------------------------------------
(* Properties: Session Limiter and Risk Assessor *)

HasWarning(ra, w) == \E i \in 1..Len(ra.warnings) : ra.warnings[i] = w

LimitWarning == "Daily trading limit reached"

\* The signal's price and stop-loss are present and nonzero
NonzeroPriceAndStop(signal) ==
    Get(signal.current_price, 0) # 0 /\ Get(signal.stop_loss, 0) # 0

\* ... and every field the scoring computes with is a number
Numeric(signal) ==
    /\ signal.current_price # NoneVal /\ signal.stop_loss # NoneVal
    /\ signal.take_profit # NoneVal /\ signal.confidence # NoneVal
    /\ signal.signal \in {"BUY", "SELL"} => signal.technical_indicators.RSI # NoneVal

Assessed == op = "assess_trade_risk"

\* C1 (as claimed): once MAX_DAILY_SIGNALS signals were recorded today,
\* check_daily_limits returns true and assess_trade_risk returns REJECTED with
\* the limit warning for any signal whatsoever.
C1_AnySignalRejectedAtCap ==
    sent_today >= MAX_DAILY_SIGNALS =>
        /\ op = "check_daily_limits" => ret.value
        /\ Assessed => /\ ret.value.recommendation = "REJECTED"
                       /\ HasWarning(ret.value, LimitWarning)

\* C1 (amended): once MAX_DAILY_SIGNALS signals were recorded today,
\* check_daily_limits returns true, and assess_trade_risk returns REJECTED
\* with the limit warning for every signal with a present, nonzero price and
\* stop-loss and numeric fields, whatever its score; a signal with a zero or
\* missing price or stop is REJECTED too, but only with 'Invalid price data'.
C1_ScoredSignalRejectedAtCap ==
    sent_today >= MAX_DAILY_SIGNALS =>
        /\ op = "check_daily_limits" => ret.value
        /\ (Assessed /\ NonzeroPriceAndStop(ret.signal) /\ Numeric(ret.signal)) =>
              /\ ret.value.recommendation = "REJECTED"
              /\ HasWarning(ret.value, LimitWarning)
        /\ (Assessed /\ ~NonzeroPriceAndStop(ret.signal)) =>
              /\ ret.value.recommendation = "REJECTED"
              /\ ret.value.warnings = <<"Invalid price data">>

\* C1 witness: at the cap, an assessment whose score and confidence alone
\* would have approved the trade was returned as REJECTED
C1_Witness ==
    /\ sent_today = MAX_DAILY_SIGNALS
    /\ Assessed /\ NonzeroPriceAndStop(ret.signal) /\ Numeric(ret.signal)
    /\ ret.value.score <= 2 /\ ret.signal.confidence >= 20
    /\ ret.value.recommendation = "REJECTED"

\* C2 (as claimed): signals_sent never exceeds the configured cap by more
\* than one, whatever the interleaving of the callers.
C2_CapExceededByAtMostOne ==
    daily_stats.signals_sent <= MAX_DAILY_SIGNALS + 1

\* C3 (as claimed): after check_daily_limits or update_daily_stats the stored
\* date is today, and the summary get_daily_summary returns counts no signal
\* of a previous day: it reports the signals recorded today.
C3_RolloverBeforeEveryAccess ==
    /\ op \in {"check_daily_limits", "update_daily_stats"} =>
          daily_stats.last_reset = today
    /\ op = "get_daily_summary" =>
          ret.value.date = today /\ ret.value.signals_sent = sent_today

\* C4 (as claimed): a /signal request that hands a Signal to the caller
\* leaves signals_sent one higher than it was (after a due day rollover).
C4_SignalCounted ==
    [][(op' = "signal_command" /\ ret'.text = "Signal") =>
          daily_stats'.signals_sent = RolledOver(daily_stats, today).signals_sent + 1]_vars

\* C5: for a signal with nonzero price and stop-loss (and numeric fields) the
\* recommendation is REJECTED if score > 4 or confidence < 20 or the daily
\* cap is reached, else CAUTION if the score is 3 or 4, else APPROVED.
C5_Recommendation ==
    (Assessed /\ NonzeroPriceAndStop(ret.signal) /\ Numeric(ret.signal)) =>
        ret.value.recommendation =
            IF \/ ret.value.score > 4
               \/ ret.signal.confidence < 20
               \/ daily_stats.signals_sent >= MAX_DAILY_SIGNALS
            THEN "REJECTED"
            ELSE IF ret.value.score \in {3, 4} THEN "CAUTION"
            ELSE "APPROVED"

\* C5 witnesses: each of the three outcomes, the rejection being one that
\* only the daily cap causes
C5_Witness ==
    /\ Assessed /\ NonzeroPriceAndStop(ret.signal) /\ Numeric(ret.signal)
    /\ ret.value.recommendation = "CAUTION"
    /\ ret.value.score = 4
    /\ daily_stats.signals_sent = MAX_DAILY_SIGNALS - 1

\* C6: with a zero or missing price or stop-loss, assess_trade_risk returns
\* REJECTED with a warning, raises nothing, scores and sizes nothing, and
\* leaves the daily statistics as they were (no rollover reset either).
C6_FailsClosed ==
    [][(op' = "assess_trade_risk" /\ ~NonzeroPriceAndStop(ret'.signal)) =>
          /\ ret'.value.recommendation = "REJECTED"
          /\ ret'.value.warnings = <<"Invalid price data">>
          /\ ret'.exit # "raised"
          /\ ret'.value.score = 0
          /\ ret'.value.position_size = Rat(0, 1)
          /\ daily_stats' = daily_stats]_vars

\* C6 witness: a signal without a stop-loss was assessed while the stored
\* date was a day behind, and the statistics were not reset
C6_Witness ==
    /\ Assessed /\ ret.signal.stop_loss = Missing /\ ret.signal.current_price = 10000
    /\ ret.value.recommendation = "REJECTED"
    /\ daily_stats.last_reset # today /\ daily_stats.signals_sent > 0

\* C7 (as claimed): a stop-loss equal to the nonzero price is always REJECTED.
C7_EqualStopRejected ==
    (Assessed /\ NonzeroPriceAndStop(ret.signal) /\ Numeric(ret.signal)
        /\ ret.signal.stop_loss = ret.signal.current_price) =>
        ret.value.recommendation = "REJECTED"

----------------------------------------------------------------------------
(* The CALL/PUT bots: generate_comprehensive_signal of
   ENHANCED_POCKET_OPTION_BOT.py (CRYPTO_PAYMENT_BOT.py holds the same code)
   and generate_po_signal of POCKET_OPTION_REAL_DATA_BOT.py *)

\* A float that is NaN: every comparison with it is false
NaN == -900003
Lt(a, b) == a # NaN /\ b # NaN /\ a < b
Gt(a, b) == a # NaN /\ b # NaN /\ a > b
Le(a, b) == a # NaN /\ b # NaN /\ a <= b
Ge(a, b) == a # NaN /\ b # NaN /\ a >= b

MIN_BARS == 20      \* calculate_technical_indicators wants len(data) >= 20
RSI_WINDOW == 14
BB_PERIOD == 20

Variants == {"ENHANCED", "PO"}

\* What a rule does: the direction afterwards, the points and the reason added
Rule(a, points, reason) == [action |-> a, points |-> points, reason |-> reason]

IfHold(a, new) == IF a = "HOLD" THEN new ELSE a

\* faulty variant: oversold below 20 and overbought above 80
MutRsiAnalysis(variant, a, ind) ==
    LET points == IF variant = "ENHANCED" THEN 30 ELSE 25
    IN  IF Lt(ind.rsi, 20) THEN Rule("CALL", points, "RSI oversold")
        ELSE IF Gt(ind.rsi, 80) THEN Rule("PUT", points, "RSI overbought")
        ELSE Rule(a, IF variant = "ENHANCED" THEN 5 ELSE 10, "RSI neutral")

RsiAnalysis(variant, a, ind) ==
    LET rsi == ind.rsi
    IN  IF variant = "ENHANCED"
        THEN IF Lt(rsi, 30) THEN Rule("CALL", 30, "RSI oversold")
             ELSE IF Gt(rsi, 70) THEN Rule("PUT", 30, "RSI overbought")
             ELSE IF Lt(rsi, 40) THEN Rule(a, 15, "RSI bearish")
             ELSE IF Gt(rsi, 60) THEN Rule(a, 15, "RSI bullish")
             ELSE Rule(a, 5, "RSI neutral")
        ELSE IF Lt(rsi, 30) THEN Rule("CALL", 25, "RSI oversold")
             ELSE IF Gt(rsi, 70) THEN Rule("PUT", 25, "RSI overbought")
             ELSE Rule(a, 10, "RSI neutral")

\* faulty variant: the MACD rule sets the direction whatever it was
MutMacdAnalysis(variant, a, ind) ==
    LET points == IF variant = "ENHANCED" THEN 25 ELSE 20
    IN  IF Gt(ind.macd, ind.macd_signal)
        THEN Rule("CALL", points, "MACD bullish crossover")
        ELSE Rule("PUT", points, "MACD bearish crossover")

MacdAnalysis(variant, a, ind) ==
    LET points == IF variant = "ENHANCED" THEN 25 ELSE 20
    IN  IF Gt(ind.macd, ind.macd_signal)
        THEN Rule(IfHold(a, "CALL"), points, "MACD bullish crossover")
        ELSE Rule(IfHold(a, "PUT"), points, "MACD bearish crossover")

\* faulty variant: a touch of the upper band is ignored
MutBollingerAnalysis(variant, a, ind) ==
    IF Le(ind.current_price, ind.bb_lower)
    THEN Rule(IF a \in {"HOLD", "PUT"} THEN "CALL" ELSE a,
              IF variant = "ENHANCED" THEN 20 ELSE 15, "Price at lower Bollinger Band")
    ELSE Rule(a, 0, "")

BollingerAnalysis(variant, a, ind) ==
    LET points == IF variant = "ENHANCED" THEN 20 ELSE 15
        price == ind.current_price
    IN  IF Le(price, ind.bb_lower)
        THEN Rule(IF a \in {"HOLD", "PUT"} THEN "CALL" ELSE a, points,
                  "Price at lower Bollinger Band")
        ELSE IF Ge(price, ind.bb_upper)
        THEN Rule(IF a \in {"HOLD", "CALL"} THEN "PUT" ELSE a, points,
                  "Price at upper Bollinger Band")
        ELSE IF variant = "ENHANCED" /\ Gt(price, ind.bb_middle) /\ a = "CALL"
        THEN Rule(a, 10, "Price above Bollinger middle")
        ELSE IF variant = "ENHANCED" /\ Lt(price, ind.bb_middle) /\ a = "PUT"
        THEN Rule(a, 10, "Price below Bollinger middle")
        ELSE Rule(a, 0, "")

\* only in generate_comprehensive_signal
MovingAverageAnalysis(variant, a, ind) ==
    IF Gt(ind.current_price, ind.ma_20)
    THEN Rule(IfHold(a, "CALL"), 15, "Price above MA20")
    ELSE IF Lt(ind.current_price, ind.ma_20)
    THEN Rule(IfHold(a, "PUT"), 15, "Price below MA20")
    ELSE Rule(a, 0, "")

\* momentum_1 in units of 0.001 %
MomentumAnalysis(variant, a, ind) ==
    LET m == ind.momentum_1
    IN  IF variant = "ENHANCED"
        THEN IF Gt(m, 20) THEN Rule(IfHold(a, "CALL"), 15, "Strong positive momentum")
             ELSE IF Lt(m, -20) THEN Rule(IfHold(a, "PUT"), 15, "Strong negative momentum")
             ELSE IF Gt(m, 0) THEN Rule(a, 5, "Positive momentum")
             ELSE IF Lt(m, 0) THEN Rule(a, 5, "Negative momentum")
             ELSE Rule(a, 0, "")
        ELSE IF Gt(m, 10) THEN Rule(IfHold(a, "CALL"), 10, "Positive momentum")
             ELSE IF Lt(m, -10) THEN Rule(IfHold(a, "PUT"), 10, "Negative momentum")
             ELSE Rule(a, 0, "")

NonEmpty(reason) == reason # ""

\* The five analysis blocks run one after the other on fresh locals
\* (signal_strength = 0, action = "HOLD", reasoning = [])
AggregateOn(variant, ind) ==
    LET r1 == RsiAnalysis(variant, "HOLD", ind)
        r2 == MacdAnalysis(variant, r1.action, ind)
        r3 == BollingerAnalysis(variant, r2.action, ind)
        r4 == IF variant = "ENHANCED"
              THEN MovingAverageAnalysis(variant, r3.action, ind)
              ELSE Rule(r3.action, 0, "")
        r5 == MomentumAnalysis(variant, r4.action, ind)
    IN  [action |-> r5.action,
         signal_strength |-> r1.points + r2.points + r3.points + r4.points + r5.points,
         reasoning |-> SelectSeq(<<r1.reason, r2.reason, r3.reason, r4.reason,
                                   r5.reason>>, NonEmpty)]

ConfidenceLevel(strength) ==
    IF strength >= 80 THEN "VERY HIGH"
    ELSE IF strength >= 60 THEN "HIGH"
    ELSE IF strength >= 40 THEN "MEDIUM"
    ELSE "LOW"

\* volatility in units of 0.01 %
VolatilityRisk(volatility) ==
    IF Lt(volatility, 100) THEN "LOW" ELSE IF Lt(volatility, 200) THEN "MEDIUM" ELSE "HIGH"

\* the dict the function returns
SignalDict(variant, a, strength, reasons, ind, len) ==
    IF variant = "ENHANCED"
    THEN [kind |-> "signal", action |-> a, current_price |-> ind.current_price,
          signal_strength |-> Min(strength, 95),
          confidence |-> ConfidenceLevel(strength),
          risk_level |-> VolatilityRisk(ind.volatility),
          rsi |-> ind.rsi, reasoning |-> reasons,
          data_freshness |-> IF len > 0 THEN "LIVE" ELSE "STALE"]
    ELSE [kind |-> "signal", action |-> a, current_price |-> ind.current_price,
          signal_strength |-> Min(strength, 95),
          rsi |-> ind.rsi, reasoning |-> reasons]

NoneReturned == [kind |-> "None"]

\* the payload display_comprehensive_signal falls back to
DisplayFallback ==
    [kind |-> "signal", action |-> "CALL", current_price |-> 10923,
     signal_strength |-> 75, confidence |-> "MEDIUM", risk_level |-> "LOW",
     rsi |-> 45, reasoning |-> <<"Real-time data temporarily unavailable">>,
     data_freshness |-> "SIMULATED"]

\* the payload generate_quick_signal falls back to
QuickFallback ==
    [kind |-> "signal", action |-> "CALL", current_price |-> 10923,
     signal_strength |-> 78, confidence |-> "HIGH", risk_level |-> "LOW",
     rsi |-> 42, reasoning |-> <<"RSI showing bullish divergence">>,
     data_freshness |-> "LIVE"]

\* `if not signal_data:` in the two handlers
Shown(handler, returned) ==
    IF returned.kind = "None"
    THEN IF handler = "display" THEN DisplayFallback ELSE QuickFallback
    ELSE returned

\* calculate_technical_indicators / calculate_po_indicators on a frame of
\* len bars: "None", "IndexError" or "ok"
IndicatorsOutcome(variant, len) ==
    IF variant = "ENHANCED"
    THEN IF len < MIN_BARS THEN "None" ELSE "ok"
    ELSE IF len <= 0 THEN "None"
         ELSE IF len < 2 THEN "IndexError"      \* data['Close'].iloc[-2]
         ELSE "ok"

\* rs = gain / loss; rsi = 100 - (100 / (1 + rs)) on floats: 0/0 is NaN, and
\* x/0 is inf for x > 0, which gives 100. gain and loss are the 14-bar means
\* of the rises and of the falls, both >= 0 (NaN on a shorter frame).
Rsi(gain, loss) ==
    IF gain = NaN \/ loss = NaN THEN NaN
    ELSE IF loss = 0 THEN IF gain = 0 THEN NaN ELSE 100
    ELSE (100 * gain) \div (gain + loss)

\* Indicator values a frame of len bars can give: the rolling windows yield
\* NaN on a frame shorter than the window (only the PO bot gets that far).
\* <<gain, loss>> pairs giving RSI 25, 35, 50, 65, 75, 0, 100, and a flat series.
GainLossValues(len) ==
    IF len < RSI_WINDOW THEN {<<NaN, NaN>>}
    ELSE {<<1, 3>>, <<7, 13>>, <<1, 1>>, <<13, 7>>, <<3, 1>>, <<0, 1>>, <<1, 0>>, <<0, 0>>}
BandValues(len) ==
    IF len < BB_PERIOD THEN {<<NaN, NaN, NaN>>}
    ELSE {<<9900, 10000, 10100>>, <<10000, 10100, 10200>>, <<9800, 9900, 10000>>,
          <<9900, 9950, 10100>>, <<9900, 10050, 10100>>,
          <<10050, 10100, 10200>>, <<9800, 9900, 9950>>}
Ma20Values(len) == IF len < BB_PERIOD THEN {NaN} ELSE {9990, 10000, 10010}
MacdValues == {-1, 0, 1}
MomentumValues == {-30, -15, 0, 15, 30}
VolatilityValues == {50, 250}
Lengths == {-1, 0, 1, 2, 14, 19, 20, 50}
Handlers(variant) == IF variant = "ENHANCED" THEN {"display", "quick"} ELSE {"direct"}

\* A handler asks for a signal; get_live_market_data / get_pocket_option_data
\* returns None (len = -1: the fetch raised) or frames of len bars
Fetch(variant, handler, len) ==
    /\ a_pc = "idle"
    /\ a_pc' = "fetched"
    /\ a_variant' = variant
    /\ a_handler' = handler
    /\ a_len' = len
    /\ UNCHANGED <<indicators, action, signal_strength, reasoning, signal_data>>
    /\ UNCHANGED <<limVars, portVars>>

\* `if not data` and the indicator calculation
CalculateIndicators(gain_loss, macd, bands, ma_20, momentum_1, volatility) ==
    /\ a_pc = "fetched"
    /\ LET outcome == IF a_len = -1 THEN "None"
                      ELSE IndicatorsOutcome(a_variant, a_len)
       IN  IF outcome = "None"
           THEN /\ a_pc' = "returned"
                /\ signal_data' = NoneReturned
                /\ UNCHANGED indicators
           ELSE IF outcome = "IndexError"
           THEN /\ a_pc' = "raised"
                /\ UNCHANGED <<indicators, signal_data>>
           ELSE /\ a_pc' = "rsi"
                /\ indicators' =
                      [current_price |-> 10000,
                       gain |-> gain_loss[1], loss |-> gain_loss[2],
                       rsi |-> Rsi(gain_loss[1], gain_loss[2]), macd |-> macd,
                       macd_signal |-> 0, bb_lower |-> bands[1],
                       bb_middle |-> bands[2], bb_upper |-> bands[3],
                       ma_20 |-> ma_20, momentum_1 |-> momentum_1,
                       volatility |-> volatility]
                /\ UNCHANGED signal_data
    /\ UNCHANGED <<a_variant, a_handler, a_len, action, signal_strength, reasoning>>
    /\ UNCHANGED <<limVars, portVars>>

\* One rule of the analysis
Apply(rule, next_pc) ==
    /\ action' = rule.action
    /\ signal_strength' = signal_strength + rule.points
    /\ reasoning' = IF rule.reason = "" THEN reasoning ELSE Append(reasoning, rule.reason)
    /\ a_pc' = next_pc
    /\ UNCHANGED <<a_variant, a_handler, a_len, indicators, signal_data>>
    /\ UNCHANGED <<limVars, portVars>>

RsiStep == a_pc = "rsi" /\ Apply(RsiAnalysis(a_variant, action, indicators), "macd")
MacdStep == a_pc = "macd" /\ Apply(MacdAnalysis(a_variant, action, indicators), "bb")
BollingerStep ==
    /\ a_pc = "bb"
    /\ Apply(BollingerAnalysis(a_variant, action, indicators),
             IF a_variant = "ENHANCED" THEN "ma" ELSE "momentum")
MovingAverageStep ==
    a_pc = "ma" /\ Apply(MovingAverageAnalysis(a_variant, action, indicators), "momentum")
MomentumStep ==
    a_pc = "momentum" /\ Apply(MomentumAnalysis(a_variant, action, indicators), "build")

\* the return statement
Return ==
    /\ a_pc = "build"
    /\ a_pc' = "returned"
    /\ signal_data' = SignalDict(a_variant, action, signal_strength, reasoning,
                                 indicators, a_len)
    /\ UNCHANGED <<a_variant, a_handler, a_len, indicators, action, signal_strength,
                   reasoning>>
    /\ UNCHANGED <<limVars, portVars>>

\* the handler shows the signal, or its fallback payload
Show ==
    /\ a_pc = "returned"
    /\ a_handler \in {"display", "quick"}
    /\ a_pc' = "shown"
    /\ signal_data' = Shown(a_handler, signal_data)
    /\ UNCHANGED <<a_variant, a_handler, a_len, indicators, action, signal_strength,
                   reasoning>>
    /\ UNCHANGED <<limVars, portVars>>

\* the request is over
Finish ==
    /\ \/ a_pc \in {"shown", "raised"}
       \/ a_pc = "returned" /\ a_handler = "direct"
    /\ a_pc' = "idle"
    /\ a_variant' = "none"
    /\ a_handler' = "none"
    /\ a_len' = 0
    /\ indicators' = [kind |-> "none"]
    /\ action' = "HOLD"
    /\ signal_strength' = 0
    /\ reasoning' = <<>>
    /\ signal_data' = [kind |-> "none"]
    /\ UNCHANGED <<limVars, portVars>>

----------------------------------------------------------------------------
(* TechnicalAnalyzer called directly: detect_candlestick_patterns and
   generate_signal (technical_analysis.py) *)

Candle(o, h, l, c) == [Open |-> o, High |-> h, Low |-> l, Close |-> c]

\* Hammer: long lower shadow, short upper shadow
Hammer(body, upper_shadow, lower_shadow) ==
    lower_shadow >= 2 * body /\ upper_shadow <= body

\* faulty variant: the lower shadow is not looked at
MutShootingStar(body, upper_shadow, lower_shadow) == upper_shadow >= 2 * body

\* Shooting star: long upper shadow, short lower shadow
ShootingStar(body, upper_shadow, lower_shadow) ==
    upper_shadow >= 2 * body /\ lower_shadow <= body

\* The keys detect_candlestick_patterns sets on a frame of two bars or more
PatternsOf(data) ==
    LET latest == data[Len(data)]
        prev == data[Len(data) - 1]
        body == Abs(latest.Close - latest.Open)
        upper_shadow == latest.High - Max(latest.Open, latest.Close)
        lower_shadow == Min(latest.Open, latest.Close) - latest.Low
        doji == 10 * body <= latest.High - latest.Low
        hammer == Hammer(body, upper_shadow, lower_shadow)
        shooting_star == ShootingStar(body, upper_shadow, lower_shadow)
        bullish_engulfing ==
            /\ latest.Close > latest.Open
            /\ prev.Close < prev.Open
            /\ latest.Open < prev.Close /\ latest.Close > prev.Open
        bearish_engulfing ==
            /\ ~(latest.Close > latest.Open)
            /\ prev.Close > prev.Open
            /\ latest.Open > prev.Close /\ latest.Close < prev.Open
        first == data[Len(data) - 2]
        second == data[Len(data) - 1]
        morning_star ==
            /\ Len(data) >= 3
            /\ first.Close < first.Open
            /\ 2 * Abs(second.Open - second.Close) < body
            /\ latest.Close > latest.Open
            /\ 2 * latest.Close > first.Open + first.Close
        evening_star ==
            /\ Len(data) >= 3
            /\ first.Close > first.Open
            /\ 2 * Abs(second.Open - second.Close) < body
            /\ latest.Close < latest.Open
            /\ 2 * latest.Close < first.Open + first.Close
    IN  {k \in {"doji", "hammer", "shooting_star", "bullish_engulfing",
                "bearish_engulfing", "morning_star", "evening_star"} :
            \/ k = "doji" /\ doji
            \/ k = "hammer" /\ hammer
            \/ k = "shooting_star" /\ shooting_star
            \/ k = "bullish_engulfing" /\ bullish_engulfing
            \/ k = "bearish_engulfing" /\ bearish_engulfing
            \/ k = "morning_star" /\ morning_star
            \/ k = "evening_star" /\ evening_star}

\* faulty variant: nothing is evaluated on fewer than three bars
MutDetectCandlestickPatterns(data) ==
    IF Len(data) < 3 THEN {} ELSE PatternsOf(data)

\* detect_candlestick_patterns: the keys of the dict it returns
DetectCandlestickPatterns(data) ==
    IF Len(data) < 2 THEN {} ELSE PatternsOf(data)

\* Candles offered: a long rising and a long falling one, a short falling
\* one, a hammer, one without any range, one without body or upper shadow,
\* and a short rising one with a long upper shadow
Candles ==
    {Candle(3, 8, 3, 8), Candle(8, 8, 3, 3), Candle(5, 5, 4, 4), Candle(7, 8, 4, 8),
     Candle(5, 5, 5, 5), Candle(5, 5, 4, 5), Candle(4, 8, 4, 5)}

MaxBars == 3

\* the frames of up to MaxBars candles
Frames == UNION {[1..n -> Candles] : n \in 0..MaxBars}

\* detect_candlestick_patterns(data) called on a frame
DetectPatterns(data) ==
    /\ a_pc = "idle"
    /\ a_pc' = "returned"
    /\ a_variant' = "PATTERNS"
    /\ a_handler' = "direct"
    /\ signal_data' = [kind |-> "patterns", data |-> data,
                       patterns |-> DetectCandlestickPatterns(data)]
    /\ UNCHANGED <<a_len, indicators, action, signal_strength, reasoning>>
    /\ UNCHANGED <<limVars, portVars>>

\* Rows generate_signal is run on: the close at 1.0000, the RSI oversold,
\* neutral or overbought, the MACD on either side of its signal line, the
\* five orders of Close, MA20 and MA50 the rule distinguishes, the close
\* inside, below or above the bands, the stochastic low, neutral or high,
\* an ATR of AtrValues
TaRows ==
    {Row(10000, rsi, macd, ma[1], ma[2], bb[1], bb[2], stoch, atr, 20) :
        rsi \in {25, 50, 75}, macd \in {-1, 1},
        ma \in {<<9900, 9800>>, <<9900, 9950>>, <<10100, 10200>>, <<10100, 10050>>,
                <<10000, 10000>>},
        bb \in {<<9500, 10500>>, <<10100, 10500>>, <<9500, 9900>>},
        stoch \in {10, 50, 90}, atr \in AtrValues}
TaPatternSets == {[bullish_engulfing |-> e, hammer |-> h] : e \in BOOLEAN, h \in BOOLEAN}

\* number of bars of the frames generate_signal gets from a working provider
\* (period "2d" at a one-minute interval)
TaBars == 50

\* generate_signal(symbol, timeframe) called directly
TaSignal(fetch, latest, patterns) ==
    /\ a_pc = "idle"
    /\ a_pc' = "returned"
    /\ a_variant' = "TA"
    /\ a_handler' = "direct"
    /\ a_len' = IF fetch = "empty" THEN 0 ELSE TaBars
    /\ indicators' = IF fetch = "ok" THEN latest ELSE indicators
    /\ signal_data' = GenerateSignal(fetch, latest, patterns)
    /\ UNCHANGED <<action, signal_strength, reasoning>>
    /\ UNCHANGED <<limVars, portVars>>

AggNext ==
    \/ /\ a_pc = "idle"
       /\ \E data \in Frames : DetectPatterns(data)
    \/ /\ a_pc = "idle"
       /\ \E fetch \in Fetches, latest \in TaRows, patterns \in TaPatternSets :
             TaSignal(fetch, latest, patterns)
    \/ \E variant \in Variants : \E handler \in Handlers(variant), len \in Lengths :
          Fetch(variant, handler, len)
    \/ /\ a_pc = "fetched"
       /\ \E gain_loss \in GainLossValues(a_len), macd \in MacdValues,
             bands \in BandValues(a_len), ma_20 \in Ma20Values(a_len),
             momentum_1 \in MomentumValues, volatility \in VolatilityValues :
               CalculateIndicators(gain_loss, macd, bands, ma_20, momentum_1, volatility)
    \/ RsiStep
    \/ MacdStep
    \/ BollingerStep
    \/ MovingAverageStep
    \/ MomentumStep
    \/ Return
    \/ Show
    \/ Finish

AggSpec == Init /\ [][AggNext]_vars

\* The RiskManager and the aggregation side by side: a behaviour runs the
\* RiskManager under direct calls (between two aggregation requests) and the
\* aggregation (on a RiskManager nobody has called yet); the bots that
\* aggregate CALL/PUT signals hold no RiskManager.
BothNext ==
    \/ /\ a_pc = "idle"
       /\ \/ Tick
          \/ TakeResult
          \/ CheckDailyLimits
          \/ /\ ret = NoRet
             /\ \E signal_sent \in BOOLEAN, trade_result \in TradeResults :
                   UpdateDailyStats(signal_sent, trade_result)
          \/ /\ ret = NoRet
             /\ \E d \in {"BUY", "SELL", "HOLD"}, c \in {NoneVal, 25, 80}, sl \in {Missing, 9800, 10000},
                   rsi \in {NoneVal, 50} :
                     AssessTradeRisk(Signal(d, c, 10000, sl, 10250, rsi, 1, 40),
                                     ACCOUNT_BALANCE)
    \/ /\ LimInit
       /\ AggNext

BothSpec == Init /\ [][BothNext]_vars

----------------------------------------------------------------------------
(* PortfolioTracker (portfolio_tracker.py): the trades and their closing.
   Of a Trade the model keeps id, trade_type, entry_price, exit_price,
   quantity, status and profit_loss (None as NoneVal); all trades are entered
   today. save_data writes the file and catches what it raises; it changes
   nothing in memory. *)

MaxPortfolioTrades == 3

TradeIds == {"t1", "t2"}
EntryPrices == {10000}
ExitPrices == {9900, 10000, 10100}
Quantities == {2}

\* A Trade as the callers build it: open, or closed by the caller already
OpenTrade(id, trade_type, entry_price, quantity) ==
    [id |-> id, trade_type |-> trade_type, entry_price |-> entry_price,
     exit_price |-> NoneVal, quantity |-> quantity, status |-> "OPEN",
     profit_loss |-> NoneVal]
NewTrades ==
    {OpenTrade(id, tt, e, q) : id \in TradeIds, tt \in {"BUY", "SELL"},
                               e \in EntryPrices, q \in Quantities}
    \cup {[OpenTrade(id, "BUY", e, q) EXCEPT !.exit_price = e + 100,
                                             !.status = "CLOSED_WIN",
                                             !.profit_loss = 100 * q] :
             id \in TradeIds, e \in EntryPrices, q \in Quantities}

\* `t.profit_loss and t.profit_loss > 0`: None and 0 are falsy
Positive(profit_loss) == profit_loss # NoneVal /\ profit_loss > 0
Negative(profit_loss) == profit_loss # NoneVal /\ profit_loss < 0

RECURSIVE SumProfitLoss(_)
SumProfitLoss(ts) ==
    IF ts = <<>> THEN 0
    ELSE (IF ts[1].status # "OPEN" /\ ts[1].profit_loss # NoneVal
          THEN ts[1].profit_loss ELSE 0) + SumProfitLoss(Tail(ts))

\* get_daily_performance for today
DailyPerformance(ts) ==
    LET closed == {i \in 1..Len(ts) : ts[i].status # "OPEN"}
        winning == {i \in closed : Positive(ts[i].profit_loss)}
    IN  IF ts = <<>>
        THEN [total_trades |-> 0, closed_trades |-> 0, profit_loss |-> 0]
        ELSE [total_trades |-> Len(ts), closed_trades |-> Cardinality(closed),
              open_trades |-> Len(ts) - Cardinality(closed),
              winning_trades |-> Cardinality(winning),
              losing_trades |-> Cardinality(closed) - Cardinality(winning),
              profit_loss |-> SumProfitLoss(ts)]

\* the trade closed at exit_price
Closed(trade, exit_price) ==
    [trade EXCEPT
        !.exit_price = exit_price,
        !.status = IF exit_price > trade.entry_price THEN "CLOSED_WIN" ELSE "CLOSED_LOSS",
        !.profit_loss = IF trade.trade_type = "BUY"
                        THEN (exit_price - trade.entry_price) * trade.quantity
                        ELSE (trade.entry_price - exit_price) * trade.quantity]

\* faulty variant: a closed trade with the id is closed again
MutCloseTradeOn(ts, trade_id, exit_price) ==
    LET matching == {i \in 1..Len(ts) : ts[i].id = trade_id}
    IN  IF matching = {} THEN [trades |-> ts, result |-> FALSE]
        ELSE LET i == CHOOSE j \in matching : \A k \in matching : j <= k
             IN  [trades |-> [ts EXCEPT ![i] = Closed(ts[i], exit_price)],
                  result |-> TRUE]

\* close_trade: the first open trade with the id is closed
CloseTradeOn(ts, trade_id, exit_price) ==
    LET matching == {i \in 1..Len(ts) : ts[i].id = trade_id /\ ts[i].status = "OPEN"}
    IN  IF matching = {} THEN [trades |-> ts, result |-> FALSE]
        ELSE LET i == CHOOSE j \in matching : \A k \in matching : j <= k
             IN  [trades |-> [ts EXCEPT ![i] = Closed(ts[i], exit_price)],
                  result |-> TRUE]

\* _get_consecutive_wins / _get_consecutive_losses: walk the trades from the
\* last one back; a trade that neither counts nor breaks is passed over
RECURSIVE ConsecutiveWins(_)
ConsecutiveWins(ts) ==
    IF ts = <<>> THEN 0
    ELSE LET trade == ts[Len(ts)]
             rest == SubSeq(ts, 1, Len(ts) - 1)
         IN  IF trade.status = "CLOSED_WIN" /\ Positive(trade.profit_loss)
             THEN 1 + ConsecutiveWins(rest)
             ELSE IF trade.status \in {"CLOSED_LOSS", "CLOSED_BREAKEVEN"} THEN 0
             ELSE ConsecutiveWins(rest)

RECURSIVE ConsecutiveLosses(_)
ConsecutiveLosses(ts) ==
    IF ts = <<>> THEN 0
    ELSE LET trade == ts[Len(ts)]
             rest == SubSeq(ts, 1, Len(ts) - 1)
         IN  IF trade.status = "CLOSED_LOSS" /\ Negative(trade.profit_loss)
             THEN 1 + ConsecutiveLosses(rest)
             ELSE IF trade.status \in {"CLOSED_WIN", "CLOSED_BREAKEVEN"} THEN 0
             ELSE ConsecutiveLosses(rest)

\* get_open_trades
OpenTrades(ts) == SelectSeq(ts, LAMBDA t : t.status = "OPEN")

\* add_trade
AddTrade(trade) ==
    /\ ret = NoRet
    /\ Len(trades) < MaxPortfolioTrades
    /\ trades' = Append(trades, trade)
    /\ p_daily_stats' = DailyPerformance(trades')
    /\ op' = "add_trade"
    /\ ret' = [kind |-> "None", trade |-> trade]
    /\ UNCHANGED <<today, daily_stats, sent_today, pc>>
    /\ UNCHANGED aggVars

\* close_trade
CloseTrade(trade_id, exit_price) ==
    /\ ret = NoRet
    /\ LET c == CloseTradeOn(trades, trade_id, exit_price)
       IN  /\ trades' = c.trades
           /\ p_daily_stats' = IF c.result THEN DailyPerformance(c.trades)
                                           ELSE p_daily_stats
           /\ ret' = [kind |-> "bool", value |-> c.result, trade_id |-> trade_id,
                      exit_price |-> exit_price]
    /\ op' = "close_trade"
    /\ UNCHANGED <<today, daily_stats, sent_today, pc>>
    /\ UNCHANGED aggVars

PortNext ==
    \/ TakeResult
    \/ /\ ret = NoRet
       /\ \E trade \in NewTrades : AddTrade(trade)
    \/ /\ ret = NoRet
       /\ \E trade_id \in TradeIds, exit_price \in ExitPrices :
             CloseTrade(trade_id, exit_price)

PortSpec == Init /\ [][PortNext]_vars

----------------------------------------------------------------------------
(* Properties: signal aggregation and hand-over *)

RuleSteps == {"macd", "bb", "ma", "momentum"}

C9_FallbackIsSimulated ==
    (a_pc = "shown" /\ a_len <= 0) =>
        signal_data.kind = "signal" /\ signal_data.data_freshness = "SIMULATED"

\* C10 (as claimed): on a frame of at least one bar but fewer bars than the
\* indicator windows need, signal generation raises nothing, and what reaches
\* the caller (the value returned to a direct caller, the signal a handler
\* shows) is a signal.
C10_ShortSeriesGivesSignal ==
    (a_len >= 1 /\ a_len < MIN_BARS) =>
        /\ a_pc # "raised"
        /\ (a_pc = "returned" /\ a_handler = "direct") => signal_data.kind = "signal"
        /\ a_pc = "shown" => signal_data.kind = "signal"

----------------------------------------------------------------------------
(* Properties: position size, risk score, failures inside assess_trade_risk *)

RatEq(x, y) == x[1] * y[2] = y[1] * x[2]
RatLe(x, y) == x[1] * y[2] <= y[1] * x[2]       \* denominators > 0

StopDistance(signal) == Abs(signal.current_price - signal.stop_loss)

Scored == Assessed /\ ret.exit = "scored"

\* C11: the position size of an assessment is
\* min(balance * risk% / 100 / stop distance, maximum) for a stop distance
\* above 0 and 0 otherwise, never above the maximum; for balance 1000, 2 % and
\* a stop distance of 0.0050 the uncapped size is 4000 and the result is the
\* maximum.
C11_PositionSize ==
    Scored =>
        LET d == StopDistance(ret.signal)
            size == ret.value.position_size
            max_position == Rat(DEFAULT_MAX_POSITION_SIZE, 1)
            uncapped == Rat(ret.account_balance * RISK_PERCENTAGE * PriceScale, 100 * d)
        IN  /\ d > 0 => size = IF RatLe(max_position, uncapped)
                                THEN max_position ELSE uncapped
            /\ d <= 0 => size = Rat(0, 1)
            /\ RatLe(size, max_position)
            /\ (ret.account_balance = 1000 /\ d = 50) =>
                  /\ RatEq(uncapped, Rat(4000, 1))
                  /\ RatEq(size, max_position)

\* C11 witness: balance 1000 and a stop 0.0050 away were sized at the maximum
C11_Witness ==
    /\ Scored /\ ret.account_balance = 1000 /\ StopDistance(ret.signal) = 50
    /\ ret.value.position_size = Rat(DEFAULT_MAX_POSITION_SIZE, 1)

\* C16: assess_trade_risk always returns an assessment whose recommendation
\* is APPROVED, CAUTION, REJECTED or ERROR; a failure inside it (a None stop,
\* target, confidence or indicator) gives ERROR with a warning appended to
\* those already collected, and every signal with such a field on the path
\* taken ends that way.
C16_NeverRaises ==
    Assessed =>
        /\ ret.value.recommendation \in {"APPROVED", "CAUTION", "REJECTED", "ERROR"}
        /\ ret.exit \in {"invalid", "raised", "scored"}
        /\ (NonzeroPriceAndStop(ret.signal) /\ ~Numeric(ret.signal)) => ret.exit = "raised"
        /\ ret.exit = "raised" =>
              /\ ret.value.recommendation = "ERROR"
              /\ Len(ret.value.warnings) >= 1
              /\ ret.value.warnings[Len(ret.value.warnings)] = "Risk assessment error"
        /\ ret.value.recommendation = "ERROR" => ret.exit = "raised"

\* C16 witness: a BUY signal whose RSI is None failed after two warnings had
\* been collected, and came back as ERROR
C16_Witness ==
    /\ Assessed /\ ret.signal.signal = "BUY"
    /\ ret.signal.technical_indicators.RSI = NoneVal
    /\ ret.value.recommendation = "ERROR"
    /\ Len(ret.value.warnings) = 3

\* C20: the risk score of a scored assessment is the sum of the risk-reward
\* points (+3 below 1, +1 below 1.5, else -1), the stop-distance points (+2
\* above 5 % of the price, +1 below 1 %), the confidence points (+2 below 30,
\* -2 above 70), the two alignment points (RSI strictly between 30 and 70 on
\* a BUY or SELL +1 else -1; MACD above its signal line on a BUY or below it
\* on a SELL +1 else -1) and the ADX point (+1 above 30).
C20_RiskScore ==
    Scored =>
        LET sig == ret.signal
            ind == sig.technical_indicators
            ratio == ret.value.risk_reward_ratio
            d == StopDistance(sig)
            directional == sig.signal \in {"BUY", "SELL"}
        IN  ret.value.score =
              (IF ratio[1] < ratio[2] THEN 3
               ELSE IF 2 * ratio[1] < 3 * ratio[2] THEN 1 ELSE -1)
            + (IF 100 * d > 5 * sig.current_price THEN 2
               ELSE IF 100 * d < sig.current_price THEN 1 ELSE 0)
            + (IF sig.confidence < 30 THEN 2
               ELSE IF sig.confidence > 70 THEN -2 ELSE 0)
            + (IF directional /\ 30 < ind.RSI /\ ind.RSI < 70 THEN 1 ELSE -1)
            + (IF \/ sig.signal = "BUY" /\ ind.MACD > ind.MACD_Signal
                  \/ sig.signal = "SELL" /\ ind.MACD < ind.MACD_Signal
               THEN 1 ELSE -1)
            + (IF ind.ADX > 30 THEN 1 ELSE 0)

\* C20 witness: every one of the five parts contributed
\* (3 + 2 + 2 - 2 + 1 on a HOLD signal, 3 + 1 - 2 + 2 + 0 on a BUY)
C20_Witness ==
    /\ Scored /\ ret.signal.signal = "BUY" /\ ret.value.score = 4
    /\ ret.signal.confidence = 80 /\ ret.signal.technical_indicators.RSI = 50
    /\ ret.signal.technical_indicators.MACD = 1

----------------------------------------------------------------------------
(* Properties: indicators, patterns and the signals built from them *)

\* the request has gone through the indicator calculation of a CALL/PUT bot
Calculated ==
    /\ a_variant \in Variants
    /\ a_pc \in RuleSteps \cup {"rsi", "build"}

\* generate_signal returned a signal dict (not an error dict)
TaReturned == a_variant = "TA" /\ a_pc = "returned" /\ ~signal_data.error

\* the sum of the confidence contributions of generate_signal's rules
TaPoints(latest, patterns) ==
    RsiRule(latest)[2] + MacdRule(latest)[2] + MaRule(latest)[2] + BbRule(latest)[2]
        + StochRule(latest)[2] + PatternRules(patterns)[2]

\* C12: every BUY that generate_signal returns has take_profit > entry >
\* stop_loss, and every SELL has take_profit < entry < stop_loss, whatever
\* the indicator and ATR values.
C12_StopsAroundEntry ==
    TaReturned =>
        /\ signal_data.signal = "BUY" =>
              /\ signal_data.take_profit > signal_data.entry_price
              /\ signal_data.entry_price > signal_data.stop_loss
        /\ signal_data.signal = "SELL" =>
              /\ signal_data.take_profit < signal_data.entry_price
              /\ signal_data.entry_price < signal_data.stop_loss

\* C13: the strength or confidence a signal reports is the total of the
\* points its rules contributed, cut off at 95, so it lies in 0..95 (also for
\* the payloads a handler falls back to).
C13_StrengthCapped ==
    /\ (a_variant \in Variants /\ a_pc = "returned" /\ signal_data.kind = "signal") =>
          /\ signal_data.signal_strength =
                IF signal_strength <= 95 THEN signal_strength ELSE 95
          /\ signal_strength = AggregateOn(a_variant, indicators).signal_strength
          /\ signal_data.signal_strength \in 0..95
    /\ (a_variant \in Variants /\ a_pc = "shown") =>
          signal_data.signal_strength \in 0..95
    /\ TaReturned =>
          /\ signal_data.confidence =
                IF TaPoints(indicators, signal_data.patterns) <= 95
                THEN TaPoints(indicators, signal_data.patterns) ELSE 95
          /\ signal_data.confidence \in 0..95

\* C13 witness: the rules of the ENHANCED bot contributed 105 points and the
\* signal reports 95
C13_Witness ==
    /\ a_variant = "ENHANCED" /\ a_pc = "returned" /\ signal_data.kind = "signal"
    /\ signal_strength = 105
    /\ signal_data.signal_strength = 95

\* C18: the RSI of a CALL/PUT bot lies in 0..100 for every series, and is 100
\* whenever the average loss is zero, a flat series included.
C18_RsiRange ==
    Calculated =>
        /\ indicators.rsi \in 0..100
        /\ indicators.loss = 0 => indicators.rsi = 100

\* C19: on a frame of fewer than two bars detect_candlestick_patterns returns
\* an empty set; on a frame of exactly two bars the morning-star and
\* evening-star keys are never set while doji, hammer, shooting star and the
\* two engulfing patterns are set exactly when their conditions hold on the
\* last bar (and the one before it).
C19_ShortFramePatterns ==
    (a_variant = "PATTERNS" /\ a_pc = "returned") =>
        LET data == signal_data.data
            patterns == signal_data.patterns
        IN  /\ Len(data) < 2 => patterns = {}
            /\ Len(data) = 2 =>
                  LET latest == data[2]
                      prev == data[1]
                      body == Abs(latest.Close - latest.Open)
                      top == IF latest.Open >= latest.Close THEN latest.Open
                                                            ELSE latest.Close
                      bottom == IF latest.Open <= latest.Close THEN latest.Open
                                                               ELSE latest.Close
                  IN  /\ "morning_star" \notin patterns
                      /\ "evening_star" \notin patterns
                      /\ "doji" \in patterns <=> 10 * body <= latest.High - latest.Low
                      /\ "hammer" \in patterns <=>
                            /\ bottom - latest.Low >= 2 * body
                            /\ latest.High - top <= body
                      /\ "shooting_star" \in patterns <=>
                            /\ latest.High - top >= 2 * body
                            /\ bottom - latest.Low <= body
                      /\ "bullish_engulfing" \in patterns <=>
                            /\ latest.Close > latest.Open /\ prev.Close < prev.Open
                            /\ latest.Open < prev.Close /\ latest.Close > prev.Open
                      /\ "bearish_engulfing" \in patterns <=>
                            /\ latest.Close <= latest.Open /\ prev.Close > prev.Open
                            /\ latest.Open > prev.Close /\ latest.Close < prev.Open

\* C19 witness: two bars, a short falling one engulfed by a long rising one;
\* the engulfing pattern is reported
C19_Witness ==
    /\ a_variant = "PATTERNS" /\ a_pc = "returned"
    /\ signal_data.data = <<Candle(5, 5, 4, 4), Candle(3, 8, 3, 8)>>
    /\ signal_data.patterns = {"bullish_engulfing"}

\* A CALL/PUT bot returned the signal it built from its indicators
BotReturned ==
    /\ a_variant \in Variants
    /\ a_pc = "returned"
    /\ signal_data.kind = "signal"

\* Scenario A on the indicators of a CALL/PUT bot and on the row of
\* generate_signal. The indicator values are the inputs of the aggregation and
\* are drawn independently of one another.
ScenarioA ==
    \/ /\ BotReturned
       /\ indicators.rsi = 25
       /\ Gt(indicators.macd, indicators.macd_signal)
       /\ Lt(indicators.current_price, indicators.bb_lower)
       /\ Gt(indicators.current_price, indicators.ma_20)
    \/ /\ TaReturned
       /\ indicators.RSI = 25
       /\ indicators.MACD > indicators.MACD_Signal
       /\ indicators.Close < indicators.BB_Lower
       /\ indicators.Close > indicators.MA20

ScenarioB ==
    \/ /\ BotReturned
       /\ indicators.rsi = 75
       /\ Lt(indicators.macd, indicators.macd_signal)
       /\ Gt(indicators.current_price, indicators.bb_upper)
    \/ /\ TaReturned
       /\ indicators.RSI = 75
       /\ indicators.MACD < indicators.MACD_Signal
       /\ indicators.Close > indicators.BB_Upper

\* direction and reported confidence of the signal returned
Direction == IF a_variant = "TA" THEN signal_data.signal ELSE signal_data.action
Confidence ==
    IF a_variant = "TA" THEN signal_data.confidence ELSE signal_data.signal_strength

C17_Deterministic ==
    /\ [][(ret = NoRet /\ op' = "assess_trade_risk") =>
             LET again == AssessTradeRiskOn(ret'.signal, ret'.account_balance,
                                            daily_stats', today')
             IN  /\ again.ra = ret'.value
                 /\ again.exit = ret'.exit
                 /\ again.stats = daily_stats']_vars
    /\ [](a_variant \in Variants /\ a_pc = "build" =>
             LET again == AggregateOn(a_variant, indicators)
             IN  /\ action = again.action
                 /\ signal_strength = again.signal_strength
                 /\ reasoning = again.reasoning)

\* C17 witness: the first assessment of a new day reset the statistics of a
\* day that had reached the limit, and approved the signal
C17_Witness ==
    /\ Scored /\ today = 1
    /\ daily_stats = ResetStats(1)
    /\ sent_today = 0
    /\ ret.value.recommendation = "APPROVED"

----------------------------------------------------------------------------
(* Properties: risk level, recommendation and the daily statistics *)

\* C21: the risk level of a scored assessment is VERY_LOW for a score of -2
\* or less, LOW up to 0, MEDIUM up to 2, HIGH up to 4 and VERY_HIGH above,
\* whatever else the signal holds and whether or not the daily limit is
\* reached.
C21_RiskLevelByScore ==
    Scored =>
        LET score == ret.value.score
        IN  /\ score <= -2 => ret.value.risk_level = "VERY_LOW"
            /\ (-2 < score /\ score <= 0) => ret.value.risk_level = "LOW"
            /\ (0 < score /\ score <= 2) => ret.value.risk_level = "MEDIUM"
            /\ (2 < score /\ score <= 4) => ret.value.risk_level = "HIGH"
            /\ 4 < score => ret.value.risk_level = "VERY_HIGH"

\* C21 witness: a score of exactly 4 was given HIGH
C21_Witness ==
    Scored /\ ret.value.score = 4 /\ ret.value.risk_level = "HIGH"

\* C24: on a scored assessment, CAUTION comes only with risk level HIGH,
\* VERY_HIGH only with REJECTED, and APPROVED only with a risk level of
\* VERY_LOW, LOW or MEDIUM, a confidence of at least 20 and fewer than
\* MAX_DAILY_SIGNALS signals sent today.
C24_LevelAndRecommendation ==
    Scored =>
        /\ ret.value.recommendation = "CAUTION" => ret.value.risk_level = "HIGH"
        /\ ret.value.risk_level = "VERY_HIGH" => ret.value.recommendation = "REJECTED"
        /\ ret.value.recommendation = "APPROVED" =>
              /\ ret.value.risk_level \in {"VERY_LOW", "LOW", "MEDIUM"}
              /\ Get(ret.signal.confidence, 0) >= 20
              /\ (daily_stats.last_reset = today =>
                     daily_stats.signals_sent < MAX_DAILY_SIGNALS)
              /\ sent_today < MAX_DAILY_SIGNALS

\* C24 witness: one signal short of the limit, a score of 3 gave HIGH and
\* CAUTION
C24_Witness ==
    /\ Scored /\ sent_today = MAX_DAILY_SIGNALS - 1
    /\ ret.value.score = 3
    /\ ret.value.risk_level = "HIGH" /\ ret.value.recommendation = "CAUTION"

\* C27: the alignment part of the score (the score less its four other
\* parts) is -2 for a signal that is neither BUY nor SELL, whatever its RSI
\* and MACD, and one of -2, 0, 2 for BUY and SELL.
C27_Alignment ==
    Scored =>
        LET sig == ret.signal
            d == StopDistance(sig)
            alignment ==
                ret.value.score
                - RiskRewardPoints(ret.value.risk_reward_ratio)
                - StopPoints(d, sig.current_price)
                - ConfidencePoints(sig.confidence)
                - AdxPoints(sig.technical_indicators.ADX)
        IN  /\ sig.signal \notin {"BUY", "SELL"} => alignment = -2
            /\ alignment \in {-2, 0, 2}

\* C27 witness: a signal without a direction whose RSI and MACD would both
\* align with a BUY was scored with -2 for alignment (3 + 1 + 0 - 2 + 0)
C27_Witness ==
    /\ Scored /\ ret.signal.signal = "None"
    /\ ret.signal.technical_indicators.RSI = 50
    /\ ret.signal.technical_indicators.MACD = 1
    /\ ret.signal.technical_indicators.ADX = 20
    /\ ret.signal.confidence = 50
    /\ ret.value.score = 2

\* C22 (as claimed): update_daily_stats with a trade result adds one to
\* trades_taken and the result's profit_loss to the cumulative profit_loss
\* for every trade result passed, and leaves signals_sent as it was; with
\* signal_sent alone it changes signals_sent only.
C22_TradeRecorded ==
    [][(ret = NoRet /\ op' = "update_daily_stats") =>
          LET trade_result == ret'.trade_result
          IN  /\ trade_result.kind # "None" =>
                    /\ daily_stats'.trades_taken = daily_stats.trades_taken + 1
                    /\ daily_stats'.profit_loss =
                          daily_stats.profit_loss + trade_result.profit_loss
                    /\ ~ret'.signal_sent =>
                          daily_stats'.signals_sent = daily_stats.signals_sent
              /\ (trade_result.kind = "None" /\ ret'.signal_sent) =>
                    /\ daily_stats'.signals_sent = daily_stats.signals_sent + 1
                    /\ daily_stats'.trades_taken = daily_stats.trades_taken
                    /\ daily_stats'.profit_loss = daily_stats.profit_loss]_vars

\* C22 (amended): update_daily_stats first resets the statistics when the
\* date has changed. Counted from the statistics after that reset, a trade
\* result that is a non-empty dict adds one to trades_taken and, when it has
\* the key, its profit_loss to the cumulative profit_loss; None and an empty
\* dict record nothing; signals_sent grows by one exactly when signal_sent is
\* set; nothing else changes.
C22_TradeRecordedAfterRollover ==
    [][(ret = NoRet /\ op' = "update_daily_stats") =>
          LET trade_result == ret'.trade_result
              st == IF daily_stats.last_reset = today THEN daily_stats
                    ELSE [trades_taken |-> 0, signals_sent |-> 0,
                          max_trades_reached |-> FALSE, win_rate |-> 0,
                          profit_loss |-> 0, last_reset |-> today]
              recorded == trade_result.kind \in {"no_pl", "pl"}
          IN  /\ daily_stats'.trades_taken =
                    st.trades_taken + (IF recorded THEN 1 ELSE 0)
              /\ daily_stats'.profit_loss =
                    st.profit_loss
                    + (IF trade_result.kind = "pl" THEN trade_result.profit_loss ELSE 0)
              /\ daily_stats'.signals_sent =
                    st.signals_sent + (IF ret'.signal_sent THEN 1 ELSE 0)
              /\ daily_stats'.last_reset = today
              /\ daily_stats'.win_rate = st.win_rate
              /\ daily_stats'.max_trades_reached = st.max_trades_reached]_vars

\* C22 witness: the second trade of a day, a loss after a gain, was recorded
\* without a signal; one signal had been sent before
C22_Witness ==
    /\ op = "update_daily_stats" /\ ret # NoRet
    /\ ret.trade_result = [kind |-> "pl", profit_loss |-> -125]
    /\ ~ret.signal_sent
    /\ daily_stats.trades_taken = 2
    /\ daily_stats.profit_loss = 250
    /\ daily_stats.signals_sent = 1

\* C26: assess_trade_risk leaves the daily statistics as they are, except
\* that its daily-limit check replaces statistics of an earlier day by fresh
\* ones; on statistics of today it changes nothing, so whether the limit is
\* reached is the same before and after it.
C26_AssessmentTakesNoQuota ==
    [][(ret = NoRet /\ op' = "assess_trade_risk") =>
          /\ daily_stats.last_reset = today => daily_stats' = daily_stats
          /\ daily_stats' # daily_stats =>
                /\ daily_stats.last_reset # today
                /\ daily_stats'.signals_sent = 0
                /\ daily_stats'.trades_taken = 0
                /\ daily_stats'.profit_loss = 0
                /\ daily_stats'.last_reset = today
          /\ (IF daily_stats'.last_reset = today
              THEN daily_stats'.signals_sent >= MAX_DAILY_SIGNALS ELSE FALSE)
             = (IF daily_stats.last_reset = today
                THEN daily_stats.signals_sent >= MAX_DAILY_SIGNALS ELSE FALSE)]_vars

\* C26 witness: an assessment made at the limit, after a trade with a loss
\* was recorded today; the statistics still hold the signals, the trade and
\* the loss
C26_Witness ==
    /\ Scored
    /\ daily_stats.last_reset = today
    /\ daily_stats.signals_sent = MAX_DAILY_SIGNALS
    /\ daily_stats.trades_taken = 1
    /\ daily_stats.profit_loss = -125
    /\ ret.value.recommendation = "REJECTED"

----------------------------------------------------------------------------
(* Properties: generate_signal and the assessment of its signals *)

\* C23: generate_signal returns BUY exactly when the scores of all its rules
\* sum to 3 or more, SELL exactly when they sum to -3 or less, and HOLD
\* otherwise; its confidence is the sum, cut off at 95, of the weights of the
\* rules that fired, bullish or bearish alike, whatever the direction.
C23_DirectionFromNetScore ==
    TaReturned =>
        LET latest == indicators
            patterns == signal_data.patterns
            signal_score ==
                RsiRule(latest)[1] + MacdRule(latest)[1] + MaRule(latest)[1]
                    + BbRule(latest)[1] + StochRule(latest)[1]
                    + (IF patterns.bullish_engulfing THEN 2 ELSE 0)
                    + (IF patterns.hammer THEN 1 ELSE 0)
            weights ==
                (IF RsiRule(latest)[1] # 0 THEN 10 ELSE 0)
                    + 15
                    + (IF MaRule(latest)[1] # 0 THEN 20 ELSE 0)
                    + (IF BbRule(latest)[1] # 0 THEN 15 ELSE 0)
                    + (IF StochRule(latest)[1] # 0 THEN 10 ELSE 0)
                    + (IF patterns.bullish_engulfing THEN 25 ELSE 0)
                    + (IF patterns.hammer THEN 20 ELSE 0)
        IN  /\ signal_data.signal = "BUY" <=> signal_score >= 3
            /\ signal_data.signal = "SELL" <=> signal_score <= -3
            /\ signal_data.signal = "HOLD" <=> (-3 < signal_score /\ signal_score < 3)
            /\ signal_data.confidence = IF weights <= 95 THEN weights ELSE 95

\* C23 witness: bullish and bearish rules cancelled to a score of 0 (RSI +1,
\* MACD -1, moving averages +2, bands -1, stochastic -1) and HOLD was
\* returned with a confidence of 70
C23_Witness ==
    /\ TaReturned
    /\ indicators.RSI = 25 /\ indicators.MACD = -1
    /\ indicators.MA20 = 9900 /\ indicators.MA50 = 9800
    /\ indicators.BB_Upper = 9900 /\ indicators.Stoch_K = 90
    /\ signal_data.patterns = [bullish_engulfing |-> FALSE, hammer |-> FALSE]
    /\ signal_data.signal = "HOLD" /\ signal_data.confidence = 70

\* signal_command replied with a signal and its assessment
Replied == op = "signal_command" /\ ret.kind = "reply" /\ ret.text = "Signal"

\* C25: for every signal generate_signal made from a row with ATR > 0 and
\* handed to assess_trade_risk with a nonzero stop, the risk-reward ratio is
\* 4/3 and the risk-reward part of the score is +1 (no 'Poor risk-reward
\* ratio' warning), whatever the direction.
C25_RiskRewardFourThirds ==
    (Replied /\ ret.latest.ATR > 0 /\ ret.signal.stop_loss # 0) =>
        /\ RatEq(ret.risk_assessment.risk_reward_ratio, Rat(4, 3))
        /\ RiskRewardPoints(ret.risk_assessment.risk_reward_ratio) = 1
        /\ ~HasWarning(ret.risk_assessment, "Poor risk-reward ratio")

\* C28: detect_candlestick_patterns sets hammer and shooting_star together
\* only on a last bar with open = close = high = low, and then sets doji as
\* well; it never sets both engulfing keys, and never both star keys.
C28_ExclusivePatterns ==
    (a_variant = "PATTERNS" /\ a_pc = "returned") =>
        LET data == signal_data.data
            patterns == signal_data.patterns
        IN  /\ {"hammer", "shooting_star"} \subseteq patterns =>
                  LET latest == data[Len(data)]
                  IN  /\ latest.Open = latest.Close
                      /\ latest.High = latest.Open
                      /\ latest.Low = latest.Open
                      /\ "doji" \in patterns
            /\ ~({"bullish_engulfing", "bearish_engulfing"} \subseteq patterns)
            /\ ~({"morning_star", "evening_star"} \subseteq patterns)

\* C28 witness: a last bar without any range after a long falling one; both
\* keys and doji are set
C28_Witness ==
    /\ a_variant = "PATTERNS" /\ a_pc = "returned"
    /\ signal_data.data = <<Candle(8, 8, 3, 3), Candle(5, 5, 5, 5)>>
    /\ {"hammer", "shooting_star", "doji"} \subseteq signal_data.patterns

----------------------------------------------------------------------------
(* Properties: PortfolioTracker *)

\* the trades carrying the id
WithId(ts, trade_id) == {i \in 1..Len(ts) : ts[i].id = trade_id}

\* C29: trades are only appended; a trade that is not OPEN never changes
\* again, so its status never returns to OPEN and its exit price and
\* profit_loss stay those of its first closing; close_trade with an id that no
\* trade, or only closed trades, carry returns False and leaves all trades as
\* they are.
C29_TradeLifecycle ==
    [][/\ Len(trades') >= Len(trades)
       /\ \A i \in 1..Len(trades) :
             /\ trades[i].status # "OPEN" => trades'[i] = trades[i]
             /\ trades'[i].status = "OPEN" => trades'[i] = trades[i]
       /\ (ret = NoRet /\ op' = "close_trade") =>
             LET carrying == WithId(trades, ret'.trade_id)
             IN  (\A i \in carrying : trades[i].status # "OPEN") =>
                    /\ ret'.value = FALSE
                    /\ trades' = trades
                    /\ OpenTrades(trades') = OpenTrades(trades)]_vars

\* C29 witness: a trade closed at 0.9900 was asked to close again at 1.0100;
\* close_trade returned False and the trade kept its first exit price
C29_Witness ==
    /\ op = "close_trade" /\ ret # NoRet
    /\ ret.value = FALSE /\ ret.exit_price = 10100
    /\ Len(trades) = 1
    /\ trades[1].id = ret.trade_id
    /\ trades[1].exit_price = 9900
    /\ trades[1].status = "CLOSED_LOSS"

\* C30: the trade that a successful close_trade closed is CLOSED_WIN exactly
\* when its profit_loss is positive and CLOSED_LOSS exactly when it is
\* negative, for BUY and for SELL; so when it is the last trade of the list
\* it counts in the streak of wins or of losses.
C30_StatusMatchesProfit ==
    [][(ret = NoRet /\ op' = "close_trade" /\ ret'.value) =>
          \A i \in 1..Len(trades) :
             trades'[i] # trades[i] =>
                /\ trades'[i].status = "CLOSED_WIN" <=> trades'[i].profit_loss > 0
                /\ trades'[i].status = "CLOSED_LOSS" <=> trades'[i].profit_loss < 0
                /\ (i = Len(trades) /\ trades'[i].profit_loss > 0) =>
                      ConsecutiveWins(trades') >= 1
                /\ (i = Len(trades) /\ trades'[i].profit_loss < 0) =>
                      ConsecutiveLosses(trades') >= 1]_vars

====
